---- MODULE Spec2Model ----
(***************************************************************************)
(* Verification model of the multi-agent orchestration core:               *)
(*   - ReactAgent (src/agents/agent.py): reasoning step, routing, batch    *)
(*     expansion, Send fan-out to subagents, tool node with fallback;      *)
(*   - ToolCallRevisorMiddleware (src/middleware/revisor.py);              *)
(*   - the Planner/Critic reflexion graph (src/agents/planner_agent.py).   *)
(* The three components are independent state machines over disjoint       *)
(* variables; each has its own specification.                              *)
(***************************************************************************)
EXTENDS Integers, Sequences, FiniteSets, TLC

\* ------------------------------------------------------------------ bounds
\* tool calls the model may put in one reasoning output
MaxCalls == 2
\* instructions in one batch delegation
MaxRequests == 2
\* tool calls the model emits over one run of the parent agent
MaxInvocations == 2
\* model calls of the orchestrator agent that may hold tool calls
MaxModelCalls == 2
\* largest value the critique counter may take
MaxCritiqueCount == 4
\* value at which the count of Q&A cycles stops growing
MaxQA == 2
\* rounds of reasoning and tool traffic inside one subagent run
MaxInner == 1
\* longest history a reasoning step of the retry middleware starts from
MaxHistory == 2
\* resumes of one suspended turn
MaxResumes == 1

\* longest list of prompts of one dispatch_tasks call
MaxPrompts == 3

\* empty results one AssistantNode run asks again for
MaxRetries == 2

\* mails sent in one process
MaxSent == 2

\* inputs given to one thread of the assistant graph
MaxTurns == 3
\* tool rounds of one assistant node
MaxRounds == 2

\* activities extracted from one mail
MaxActivities == 3

\* entries of a dialog stack
MaxDepth == 3

VARIABLES
    messages,     \* AgentState.messages of the parent ReactAgent
    pc,           \* node of the parent graph that runs next
    sends,        \* Send objects of the running fan-out superstep
    unit,         \* per Send: state of the subagent node task
    writes,       \* per Send: the update its wrapper returned
    invoked,      \* number of tool calls emitted so far in the run
    signal,       \* ids of the invocations whose execution raised GraphInterrupt in the current step
    interrupts,   \* __interrupt__ of the result handed to the caller
    early,        \* some unit finished while a unit of a lower slot was still running
    expanded,     \* tool calls of the reasoning output as _route_to_subagents expanded them
    failed,       \* ids of the direct calls that raised an ordinary error in the latest tools step
    inner,        \* some subagent run of the superstep produced intermediate messages
    decisions,    \* resume values applied in the turn: the interrupt resumed and the one answered
    executed      \* direct tool calls of the turn that ran to completion, and how many times

agentVars == <<messages, pc, sends, unit, writes, invoked, signal, interrupts, early, expanded, failed, inner,
               decisions, executed>>

VARIABLES
    r_messages,   \* RevisorState.messages of the orchestrator agent
    revisions,    \* RevisorState.revisions
    r_pc,         \* node of the orchestrator agent's graph that runs next
    r_turn,       \* number of model calls made so far
    r_executed,   \* ids of the tool calls the tools node has invoked
    r_rejected,   \* turns in which the classifier did not approve some dispatch
    r_error,      \* the exception that ended the run, "none" while there is none
    r_classified  \* ids of the calls the latest after_model handed to the classifier

revisorVars == <<r_messages, revisions, r_pc, r_turn, r_executed, r_rejected, r_error, r_classified>>

VARIABLES
    p_pc,            \* node of the planner graph that runs next
    last_message,    \* state["messages"][-1]: the node that wrote it and its markers
    plan,            \* PlannerState.plan: number of the draft it holds, 0 for ""
    critique_count,  \* PlannerState.critique_count
    todos,           \* PlannerState.todos
    qa_cycles,       \* CRITIC steps that answered a question, counted up to MaxQA
    conforms         \* no critique cycle has emitted the answer marker so far

plannerVars == <<p_pc, last_message, plan, critique_count, todos, qa_cycles, conforms>>

VARIABLES
    w_pc,              \* "request" before wrap_model_call, "loop" inside it, "returned" after it
    attempt,           \* loop variable of wrap_model_call: the attempt that runs next
    request_messages,  \* request.state["messages"]
    ret,               \* what wrap_model_call returns
    responses,         \* responses the handler has given so far, in order
    corrected_before   \* numbers (1, 2, 3) of the attempts the corrective message preceded

retryVars == <<w_pc, attempt, request_messages, ret, responses, corrected_before>>

VARIABLES
    d_pc,  \* position in dispatch_tasks: idle, loop, returned, raised
    d_subagent,  \* argument subagent
    d_prompts,  \* argument prompts
    d_results,  \* the local list results
    d_answered  \* the answer the subagent gave to each prompt run so far, in the order of the runs

dispatchVars == <<d_pc, d_subagent, d_prompts, d_results, d_answered>>

VARIABLES
    a_pc,  \* position of the node: idle, model, empty, returned
    a_entry,  \* the node function that runs
    a_state,  \* state["messages"] of the graph
    a_handed,  \* the message list the model is invoked on
    a_retries  \* empty results answered by asking again, counted up to MaxRetries

assistantVars == <<a_pc, a_entry, a_state, a_handed, a_retries>>

VARIABLES
    MOCK_INBOX,  \* module-level list of received mail: the read flag of each id
    MOCK_SENT,  \* module-level list of sent mail
    MOCK_DRAFTS,  \* module-level dict of drafts by id
    m_actor,  \* the session whose tool call ran last
    m_seen  \* what read_emails last returned to each session

mailVars == <<MOCK_INBOX, MOCK_SENT, MOCK_DRAFTS, m_actor, m_seen>>

VARIABLES
    g_pc,  \* node of the graph that runs next
    dialog_state,  \* State.dialog_state
    g_target,  \* the subagent named by the latest to_subagent call
    g_before,  \* the stack as it was when the latest subagent was entered
    g_turns,  \* inputs given to the thread so far
    g_rounds,  \* tool rounds of the node that is active
    g_calls,  \* names of the tool calls of the latest assistant message
    g_answered  \* positions of those calls that have a ToolMessage in the history

dialogVars == <<g_pc, dialog_state, g_target, g_before, g_turns, g_rounds, g_calls, g_answered>>

VARIABLES
    wf_pc,  \* node of the workflow that runs next
    current_step,  \* state["current_step"]
    raw_email_content,  \* state["raw_email_content"]
    consultant_activities,  \* state["consultant_activities"]
    errors,  \* state["errors"]
    wf_failed,  \* how the latest node failed: none, no content, exception
    has_discrepancies,  \* state["has_discrepancies"]
    validation_passed  \* state["validation_passed"]

workflowVars == <<wf_pc, current_step, raw_email_content, consultant_activities, errors, wf_failed, has_discrepancies, validation_passed>>

VARIABLES
    rt_pc,  \* idle, or routed once the router has run
    rt_stack,  \* state["dialog_state"] at the entry
    rt_result  \* the node route_to_workflow returned, or "raise"

routerVars == <<rt_pc, rt_stack, rt_result>>

vars == <<agentVars, revisorVars, plannerVars, retryVars, dispatchVars, assistantVars, mailVars, dialogVars, workflowVars, routerVars>>

outsideAgent == <<revisorVars, plannerVars, retryVars, dispatchVars, assistantVars, mailVars, dialogVars, workflowVars, routerVars>>

outsideRevisor == <<agentVars, plannerVars, retryVars, dispatchVars, assistantVars, mailVars, dialogVars, workflowVars, routerVars>>

outsidePlanner == <<agentVars, revisorVars, retryVars, dispatchVars, assistantVars, mailVars, dialogVars, workflowVars, routerVars>>

outsideRetry == <<agentVars, revisorVars, plannerVars, dispatchVars, assistantVars, mailVars, dialogVars, workflowVars, routerVars>>

outsideDispatch == <<agentVars, revisorVars, plannerVars, retryVars, assistantVars, mailVars, dialogVars, workflowVars, routerVars>>

outsideAssistant == <<agentVars, revisorVars, plannerVars, retryVars, dispatchVars, mailVars, dialogVars, workflowVars, routerVars>>

outsideMail == <<agentVars, revisorVars, plannerVars, retryVars, dispatchVars, assistantVars, dialogVars, workflowVars, routerVars>>

outsideDialog == <<agentVars, revisorVars, plannerVars, retryVars, dispatchVars, assistantVars, mailVars, workflowVars, routerVars>>

outsideWorkflow == <<agentVars, revisorVars, plannerVars, retryVars, dispatchVars, assistantVars, mailVars, dialogVars, routerVars>>

outsideRouter == <<agentVars, revisorVars, plannerVars, retryVars, dispatchVars, assistantVars, mailVars, dialogVars, workflowVars>>

\* -------------------------------------------------------------- vocabulary
END == "__end__"
NoId == <<>>
Absent == "<absent>"

\* the instructions the reasoning step may write into a delegation
Instructions == {"a", "b"}

\* self.subagent_map, restricted to the delegation tool's class name
subagent_map == [query |-> "ToQuerySubagent", validation |-> "ToValidationSubagent"]

\* self.subagent_by_tool_name
subagent_by_tool_name == [ToQuerySubagent |-> "query", ToValidationSubagent |-> "validation"]

\* self._delegation_tool_name
delegation_tool_name == "DelegateToSubagents"

\* a direct tool of the parent (policy_tools)
DirectTools == {"retrieve_policy"}

\* a name the model may write that no subagent is registered under
UnregisteredNames == {"invoice"}

HumanMessage(content, name) ==
    [type |-> "human", content |-> content, tool_calls |-> <<>>, tool_call_id |-> NoId, name |-> name]

AIMessage(content, tool_calls) ==
    [type |-> "ai", content |-> content, tool_calls |-> tool_calls, tool_call_id |-> NoId, name |-> NoId]

ToolMessage(content, tool_call_id) ==
    [type |-> "tool", content |-> content, tool_calls |-> <<>>, tool_call_id |-> tool_call_id, name |-> NoId]

\* a tool call: name, id and the args dictionary (keys subagent_name, requests, request);
\* requests holds a list, requests_str a string stored under the key "requests"
ToolCall(name, id, subagent_name, requests, requests_str, request) ==
    [name |-> name, id |-> id, subagent_name |-> subagent_name,
     requests |-> requests, requests_str |-> requests_str, request |-> request]

\* a derivation that drops the index: C2 does not hold with it
DerivedIdWithoutIndex(id, idx) == Append(id, 0)
\* f"{tool_call['id']}__{idx}"
DerivedId(id, idx) == Append(id, idx)

RECURSIVE Flatten(_)
Flatten(ss) == IF ss = <<>> THEN <<>> ELSE Head(ss) \o Flatten(Tail(ss))

\* index of the last message that has tool calls, 0 when there is none
LastWithToolCalls(msgs) ==
    LET I == {i \in 1..Len(msgs) : msgs[i].tool_calls # <<>>}
    IN IF I = {} THEN 0 ELSE CHOOSE i \in I : \A j \in I : j <= i

\* ------------------------------------------------- ReactAgent: pure functions

\* the individual calls one tool call expands into (body of the loop of _expand_batch_tool_calls)
ExpandOne(tool_call) ==
    IF tool_call.name = delegation_tool_name
    THEN IF tool_call.subagent_name \in DOMAIN subagent_map
         THEN [idx \in 1..Len(tool_call.requests) |->
                  ToolCall(subagent_map[tool_call.subagent_name],
                           DerivedId(tool_call.id, idx - 1),
                           Absent, <<>>, tool_call.requests[idx], Absent)]
         ELSE <<>>
    ELSE <<tool_call>>

expand_batch_tool_calls(msgs) ==
    LET i == LastWithToolCalls(msgs)
    IN IF i = 0 THEN msgs
       ELSE [msgs EXCEPT ![i] =
                AIMessage(msgs[i].content,
                          Flatten([k \in 1..Len(msgs[i].tool_calls) |-> ExpandOne(msgs[i].tool_calls[k])]))]

\* args.get("requests", args.get("request", "")); Absent when the value is not a string
RequestContent(tool_call) ==
    IF tool_call.requests_str # Absent THEN tool_call.requests_str
    ELSE IF tool_call.requests # <<>> THEN Absent
    ELSE IF tool_call.request # Absent THEN tool_call.request
    ELSE ""

\* the first message of the parent sent along: C16 does not hold with it
SendWithTask(node, content, name) ==
    [node |-> node, messages |-> <<HumanMessage(<<"task">>, NoId), HumanMessage(content, name)>>]
\* Send(subagent.name, {"messages": [HumanMessage(content=request_content, name=tool_call["id"])]})
Send(node, content, name) == [node |-> node, messages |-> <<HumanMessage(content, name)>>]

SendsOf(tool_call) ==
    IF tool_call.name \in DOMAIN subagent_by_tool_name /\ RequestContent(tool_call) # Absent
    THEN <<Send(subagent_by_tool_name[tool_call.name], <<RequestContent(tool_call)>>, tool_call.id)>>
    ELSE <<>>

route_to_subagents(msgs) ==
    LET expanded_messages == expand_batch_tool_calls(msgs)
        i == LastWithToolCalls(expanded_messages)
    IN IF i = 0 THEN <<>>
       ELSE Flatten([k \in 1..Len(expanded_messages[i].tool_calls) |->
                        SendsOf(expanded_messages[i].tool_calls[k])])

\* langgraph.prebuilt.tools_condition, as used at the head of _route_after_llm
tools_condition(msgs) ==
    IF msgs[Len(msgs)].tool_calls # <<>> THEN "tools" ELSE END

IsDelegation(tool_call) ==
    tool_call.name = delegation_tool_name \/ tool_call.name \in DOMAIN subagent_by_tool_name

\* the edge out of "llm": a node name, or the list of Send objects
route_after_llm(msgs) ==
    IF tools_condition(msgs) = END THEN [to |-> END, sends |-> <<>>]
    ELSE IF \E k \in 1..Len(msgs[Len(msgs)].tool_calls) : IsDelegation(msgs[Len(msgs)].tool_calls[k])
         THEN [to |-> "sends", sends |-> route_to_subagents(msgs)]
         ELSE [to |-> "tools", sends |-> <<>>]

\* an error message for the first tool call only: C14 does not hold with it
handle_tool_error_first_call(error, tool_calls) ==
    IF error = "interrupt"
    THEN [raised |-> TRUE, messages |-> <<>>]
    ELSE [raised |-> FALSE, messages |-> <<ToolMessage(<<"Error">>, tool_calls[1].id)>>]
\* handle_tool_error: re-raise a GraphInterrupt, else one error message per tool call
handle_tool_error(error, tool_calls) ==
    IF error = "interrupt"
    THEN [raised |-> TRUE, messages |-> <<>>]
    ELSE [raised |-> FALSE,
          messages |-> [k \in 1..Len(tool_calls) |-> ToolMessage(<<"Error">>, tool_calls[k].id)]]

\* wrapper of _create_subagent_wrapper: name of the first named message of the unit's state
WrapperToolCallId(state_messages) ==
    LET I == {i \in 1..Len(state_messages) : state_messages[i].name # NoId}
    IN IF I = {} THEN NoId ELSE state_messages[CHOOSE i \in I : \A j \in I : i <= j].name

\* the final answer of a subagent run on a unit's instruction
FinalAnswer(send) == <<"answer", send.node>> \o send.messages[1].content

\* result["messages"] of subagent.agent.graph.ainvoke(state): the unit's messages, n
\* rounds of the subagent's own reasoning and tool traffic, and its final answer
SubagentMessages(send, n) ==
    send.messages
    \o Flatten([j \in 1..n |->
           <<AIMessage(<<"inner">>, <<ToolCall("inner_tool", <<"inner", j>>, Absent, <<>>, Absent, Absent)>>),
             ToolMessage(<<"inner">>, <<"inner", j>>)>>])
    \o <<AIMessage(FinalAnswer(send), <<>>)>>

\* the whole run handed to the parent: C17 does not hold with it
WrapperResultWholeRun(send, result) == result
\* the update wrapper returns for a completed subagent run
WrapperResult(send, result) ==
    IF WrapperToolCallId(send.messages) # NoId
    THEN <<ToolMessage(result[Len(result)].content, WrapperToolCallId(send.messages))>>
    ELSE <<result[Len(result)]>>

\* the updates appended last task first: C1 does not hold with it
ApplyWritesLastFirst(msgs, ws) == msgs \o [k \in 1..Len(ws) |-> ws[Len(ws) + 1 - k]]
\* add_messages applied to the updates of one superstep, in task order
ApplyWrites(msgs, ws) == msgs \o ws

\* ------------------------------------------------------ reasoning outputs
SeqsUpTo(S, n) == UNION {[1..k -> S] : k \in 0..n}

NonEmptySeqsUpTo(S, n) == UNION {[1..k -> S] : k \in 1..n}

\* tool calls the model can choose from, before ids are assigned
CallMenu ==
    {ToolCall(t, NoId, Absent, <<>>, Absent, Absent) : t \in DirectTools}
    \cup {ToolCall(subagent_map[s], NoId, Absent, <<>>, Absent, r) :
            s \in DOMAIN subagent_map, r \in Instructions}
    \cup {ToolCall(delegation_tool_name, NoId, s, rs, Absent, Absent) :
            s \in (DOMAIN subagent_map) \cup UnregisteredNames,
            rs \in NonEmptySeqsUpTo(Instructions, MaxRequests)}

\* the provider gives every tool call of a run its own id
WithIds(calls, turn) == [k \in 1..Len(calls) |-> [calls[k] EXCEPT !.id = <<turn, k>>]]

Turn(msgs) == Cardinality({i \in 1..Len(msgs) : msgs[i].type = "ai"}) + 1

\* -------------------------------------------------------------- ReactAgent
AgentInit ==
    /\ messages = <<HumanMessage(<<"task">>, NoId)>>
    /\ pc = "llm"
    /\ sends = <<>>
    /\ unit = <<>>
    /\ writes = <<>>
    /\ invoked = 0
    /\ signal = {}
    /\ interrupts = {}
    /\ early = FALSE
    /\ expanded = <<>>
    /\ failed = {}
    /\ inner = FALSE
    /\ decisions = {}
    /\ executed = {}

\* _call_llm followed by the conditional edge _route_after_llm
LLMResponse(calls) ==
    AIMessage(IF calls = <<>> THEN <<"final">> ELSE <<>>, WithIds(calls, Turn(messages)))

call_llm ==
    /\ pc = "llm"
    /\ \E calls \in SeqsUpTo(CallMenu, IF MaxCalls < MaxInvocations - invoked
                                        THEN MaxCalls ELSE MaxInvocations - invoked) :
       LET response == LLMResponse(calls)
           msgs == Append(messages, response)
           route == route_after_llm(msgs)
       IN /\ messages' = msgs
          /\ sends' = route.sends
          /\ expanded' = IF route.to = "sends"
                         THEN expand_batch_tool_calls(msgs)[Len(msgs)].tool_calls
                         ELSE <<>>
          /\ unit' = [i \in 1..Len(route.sends) |-> "running"]
          /\ writes' = [i \in 1..Len(route.sends) |-> <<>>]
          /\ pc' = CASE route.to = END -> END
                     [] route.to = "tools" -> "tools"
                     [] route.sends = <<>> -> END
                     [] OTHER -> "subagents"
          /\ invoked' = invoked + Len(calls)
    /\ signal' = {}
    /\ failed' = {}
    /\ inner' = FALSE
    /\ decisions' = {}
    /\ executed' = {}
    /\ early' = FALSE
    /\ UNCHANGED interrupts
    /\ UNCHANGED outsideAgent

\* the superstep of subagent tasks ends: writes are applied in task order,
\* or the run suspends when a task raised GraphInterrupt
EndSuperstep(u, w) ==
    IF \E i \in DOMAIN u : u[i] = "running" THEN
        /\ UNCHANGED <<messages, pc, interrupts>>
    ELSE IF \E i \in DOMAIN u : u[i] = "interrupted" THEN
        /\ pc' = "interrupted"
        /\ interrupts' = {sends[i].messages[1].name : i \in {j \in DOMAIN u : u[j] = "interrupted"}}
        /\ UNCHANGED messages
    ELSE
        /\ messages' = ApplyWrites(messages, Flatten(w))
        /\ pc' = "llm"
        /\ UNCHANGED interrupts

\* a subagent node: subagent.agent.graph.ainvoke(state) runs to its final answer
SubagentReturn ==
    /\ pc = "subagents"
    /\ \E i \in DOMAIN unit, n \in 0..MaxInner :
         /\ unit[i] = "running"
         /\ unit' = [unit EXCEPT ![i] = "done"]
         /\ writes' = [writes EXCEPT ![i] = WrapperResult(sends[i], SubagentMessages(sends[i], n))]
         /\ inner' = (inner \/ n > 0)
         /\ EndSuperstep(unit', writes')
         /\ early' = (early \/ \E j \in 1..(i - 1) : unit[j] = "running")
    /\ UNCHANGED <<sends, invoked, signal, expanded, failed, decisions, executed>>
    /\ UNCHANGED outsideAgent

\* the runs of a tool node over n tool calls: outcome[k] is what call k does, raised the
\* call whose exception leaves the tool node (0 when every call returns)
ToolNodeRuns(n) ==
    {r \in [outcome : [1..n -> {"ok", "error", "interrupt"}], raised : 0..n] :
        IF \A k \in 1..n : r.outcome[k] = "ok"
        THEN r.raised = 0
        ELSE r.raised # 0 /\ r.outcome[r.raised] # "ok"}

\* ids of the calls of a run that raised GraphInterrupt
RaisedInterrupt(run, tool_calls) ==
    {tool_calls[k].id : k \in {j \in DOMAIN run.outcome : run.outcome[j] = "interrupt"}}

\* ids of the calls of a run that raised an ordinary error
RaisedError(run, tool_calls) ==
    {tool_calls[k].id : k \in {j \in DOMAIN run.outcome : run.outcome[j] = "error"}}

\* the tool node of a subagent (create_tool_node_with_fallback) inside the wrapper's
\* ainvoke, run on one tool call: a result or a folded error stays in the subagent, a
\* re-raised GraphInterrupt leaves the subagent graph and the wrapper
SubagentTools ==
    /\ pc = "subagents"
    /\ \E i \in DOMAIN unit, run \in ToolNodeRuns(1) :
         LET tool_calls == <<[id |-> sends[i].messages[1].name]>>
         IN /\ unit[i] = "running"
            /\ IF run.raised # 0 /\ handle_tool_error(run.outcome[run.raised], tool_calls).raised
               THEN /\ unit' = [unit EXCEPT ![i] = "interrupted"]
                    /\ EndSuperstep(unit', writes)
               ELSE UNCHANGED <<unit, messages, pc, interrupts>>
            /\ signal' = signal \cup RaisedInterrupt(run, tool_calls)
    /\ UNCHANGED <<sends, writes, invoked, early, expanded, failed, inner, decisions, executed>>
    /\ UNCHANGED outsideAgent

\* the parent's "tools" node: ToolNode(...).with_fallbacks([handle_tool_error])
tools ==
    /\ pc = "tools"
    /\ LET tool_calls == messages[Len(messages)].tool_calls
       IN \E run \in ToolNodeRuns(Len(tool_calls)) :
            /\ IF run.raised = 0
               THEN /\ messages' = messages \o
                         [k \in DOMAIN tool_calls |->
                             ToolMessage(<<"ok", tool_calls[k].name>>, tool_calls[k].id)]
                    /\ pc' = "llm"
                    /\ UNCHANGED interrupts
               ELSE LET h == handle_tool_error(run.outcome[run.raised], tool_calls)
                    IN IF h.raised
                       THEN /\ pc' = "interrupted"
                            /\ interrupts' = {tool_calls[run.raised].id}
                            /\ UNCHANGED messages
                       ELSE /\ messages' = messages \o h.messages
                            /\ pc' = "llm"
                            /\ UNCHANGED interrupts
            /\ signal' = RaisedInterrupt(run, tool_calls)
            /\ failed' = RaisedError(run, tool_calls)
            /\ executed' = {[id |-> tool_calls[k].id, times |-> 1] :
                               k \in {j \in DOMAIN tool_calls : run.outcome[j] # "interrupt"}}
    /\ UNCHANGED <<sends, unit, writes, invoked, early, expanded, inner, decisions>>
    /\ UNCHANGED outsideAgent

\* what Command(resume=value), one value without interrupt ids, does to the pending
\* interrupts: with one pending interrupt it resumes it; with several the run either
\* refuses the value, or gives it to every pending interrupt, or to one of them
ResumedSets(pending) ==
    IF Cardinality(pending) <= 1 THEN {pending}
    ELSE {{}, pending} \cup {{id} : id \in pending}

\* main: while result has "__interrupt__", read one response and
\* ainvoke(Command(resume=response)); answered is the interrupt the response was given for
resume ==
    /\ pc = "interrupted"
    /\ Cardinality({d.to : d \in decisions}) < MaxResumes
    /\ \E answered \in interrupts, resumed \in ResumedSets(interrupts) :
         /\ decisions' = decisions \cup {[applied |-> id, to |-> answered] : id \in resumed}
         /\ IF resumed = {}
            THEN /\ pc' = "raised"
                 /\ UNCHANGED <<messages, unit, writes, interrupts, signal, failed, inner, executed>>
            ELSE IF \E i \in DOMAIN unit : unit[i] = "interrupted"
            THEN /\ unit' = [i \in DOMAIN unit |->
                                IF sends[i].messages[1].name \in resumed THEN "done" ELSE unit[i]]
                 /\ writes' = [i \in DOMAIN unit |->
                                IF unit[i] = "interrupted" /\ sends[i].messages[1].name \in resumed
                                THEN WrapperResult(sends[i], SubagentMessages(sends[i], 1))
                                ELSE writes[i]]
                 /\ interrupts' = interrupts \ resumed
                 /\ IF interrupts' # {}
                    THEN UNCHANGED <<messages, pc>>
                    ELSE /\ messages' = ApplyWrites(messages, Flatten(writes'))
                         /\ pc' = "llm"
                 /\ inner' = TRUE
                 /\ signal' = {}
                 /\ UNCHANGED <<failed, executed>>
            ELSE LET tool_calls == messages[Len(messages)].tool_calls
                 IN /\ messages' = messages \o
                          [k \in DOMAIN tool_calls |->
                              ToolMessage(<<"ok", tool_calls[k].name>>, tool_calls[k].id)]
                    /\ pc' = "llm"
                    /\ interrupts' = {}
                    /\ signal' = {}
                    /\ failed' = {}
                    /\ executed' = {[id |-> tool_calls[k].id,
                                      times |-> IF \E e \in executed : e.id = tool_calls[k].id
                                                THEN 2 ELSE 1] : k \in DOMAIN tool_calls}
                    /\ UNCHANGED <<unit, writes, inner>>
    /\ UNCHANGED <<sends, invoked, early, expanded>>
    /\ UNCHANGED outsideAgent

AgentNext ==
    \/ call_llm
    \/ SubagentReturn
    \/ SubagentTools
    \/ tools
    \/ resume

\* ------------------------------------- orchestrator agent with the Revisor

\* ToolCallRevisorMiddleware("dispatch_tasks")
revised_tool_call == "dispatch_tasks"

\* the agent name after_model compares call["args"]["subagent"] with
monitored_subagent == "query"

\* keys of _subagents_mapping
subagents_mapping == {"verification", "validation"}

\* state["revisions"]: None, or the list of classifier responses
None == [is_none |-> TRUE, list |-> <<>>]

SomeRevisions(list) == [is_none |-> FALSE, list |-> list]

DispatchCall(name, id, subagent, prompts) ==
    [name |-> name, id |-> id, subagent |-> subagent, prompts |-> prompts]

\* tool calls the orchestrator's model can choose from, before ids are assigned
OrchestratorMenu ==
    {DispatchCall("report_stage_results", NoId, Absent, <<>>)}
    \cup {DispatchCall("dispatch_tasks", NoId, s, ps) :
            s \in {monitored_subagent, "verification"}, ps \in {<<"a">>, <<"a", "b">>}}

\* what one call of the classification function does: a Revision with this status,
\* a response without the key revision_status, or an exception
ClassifierOutcomes == {"approved", "rejected", "malformed", "raises"}

\* the loop of after_model without the test of call["args"]["subagent"]: C22 does not
\* hold with it
MonitoredAnyAgent(tool_calls) ==
    SelectSeq([k \in DOMAIN tool_calls |-> k],
              LAMBDA k : tool_calls[k].name = revised_tool_call)
\* positions of the calls the loop of after_model submits to the classifier
Monitored(tool_calls) ==
    SelectSeq([k \in DOMAIN tool_calls |-> k],
              LAMBDA k : /\ tool_calls[k].name = revised_tool_call
                         /\ tool_calls[k].subagent = monitored_subagent)

RECURSIVE AllApproved(_)
\* any(...) in place of all(...): C5 does not hold with it
AnyApproved(revs) ==
    IF \E k \in DOMAIN revs : revs[k].revision_status = "approved" THEN "true" ELSE "false"
\* all(r["revision_status"] == "approved" for r in revisions), evaluated left to right:
\* "raise" when the lookup fails before a decision is reached
AllApproved(revs) ==
    IF revs = <<>> THEN "true"
    ELSE IF Head(revs).revision_status = "malformed" THEN "raise"
    ELSE IF Head(revs).revision_status = "approved" THEN AllApproved(Tail(revs))
    ELSE "false"

\* f"tried to call tool(s): ..." built from tool_calls_simple
TriedToCall(tool_calls) ==
    HumanMessage(<<"tried to call tool(s)">> \o [k \in DOMAIN tool_calls |-> tool_calls[k].name], NoId)

\* the first message overwritten instead of the last: C27 does not hold with it
ReplaceFirst(msgs, m) == [msgs EXCEPT ![1] = m]
\* state["messages"][-1] = HumanMessage(...)
ReplaceLast(msgs, m) == [msgs EXCEPT ![Len(msgs)] = m]

\* an after_model that rewrites the history whatever the verdicts: C23 does not hold
\* with it
after_model_return_always_rewrites(msgs, revs) ==
    [is_none |-> FALSE,
     messages |-> ReplaceLast(msgs, TriedToCall(msgs[Len(msgs)].tool_calls)),
     revisions |-> SomeRevisions(revs),
     jump_to |-> "model"]
\* what after_model returns once the loop is over and all(...) has a value: None, or
\* the update {"messages", "revisions", "jump_to"}
after_model_return(msgs, revs) ==
    IF AllApproved(revs) = "true"
    THEN [is_none |-> TRUE, messages |-> msgs, revisions |-> None, jump_to |-> "none"]
    ELSE [is_none |-> FALSE,
          messages |-> ReplaceLast(msgs, TriedToCall(msgs[Len(msgs)].tool_calls)),
          revisions |-> SomeRevisions(revs),
          jump_to |-> "model"]

RevisorInit ==
    /\ r_messages = <<HumanMessage(<<"task">>, NoId)>>
    /\ revisions = None
    /\ r_pc = "before_model"
    /\ r_turn = 0
    /\ r_executed = {}
    /\ r_rejected = {}
    /\ r_error = "none"
    /\ r_classified = {}

\* a before_model that reports the rejection and keeps the revisions: C24 does not
\* hold with it
before_model_return_keeping_revisions(revs) ==
    [is_none |-> revs = None,
     messages |-> <<HumanMessage(<<"Tool call rejected">>, NoId)>>,
     revisions |-> revs]
\* what before_model returns: None, or {"messages": [...], "revisions": None}
before_model_return(revs) ==
    [is_none |-> revs = None,
     messages |-> <<HumanMessage(<<"Tool call rejected">>, NoId)>>,
     revisions |-> None]

\* ToolCallRevisorMiddleware.before_model
before_model ==
    /\ r_pc = "before_model"
    /\ LET return == before_model_return(revisions)
       IN IF return.is_none
          THEN UNCHANGED <<r_messages, revisions>>
          ELSE /\ r_messages' = r_messages \o return.messages
               /\ revisions' = return.revisions
    /\ r_pc' = "model"
    /\ UNCHANGED <<r_turn, r_executed, r_rejected, r_error, r_classified>>
    /\ UNCHANGED outsideRevisor

\* the model node of create_agent: one reasoning output
model ==
    /\ r_pc = "model"
    /\ \E calls \in SeqsUpTo(OrchestratorMenu, IF r_turn < MaxModelCalls THEN MaxCalls ELSE 0) :
         r_messages' = Append(r_messages,
                              AIMessage(IF calls = <<>> THEN <<"final">> ELSE <<>>,
                                        WithIds(calls, r_turn + 1)))
    /\ r_turn' = r_turn + 1
    /\ r_pc' = "after_model"
    /\ r_classified' = {}
    /\ UNCHANGED <<revisions, r_executed, r_rejected, r_error>>
    /\ UNCHANGED outsideRevisor

\* ToolCallRevisorMiddleware.after_model, and the edge that follows it
after_model ==
    /\ r_pc = "after_model"
    /\ LET tool_calls == r_messages[Len(r_messages)].tool_calls
           monitored == Monitored(tool_calls)
       IN \E response \in [DOMAIN monitored -> ClassifierOutcomes] :
            LET revs == [k \in DOMAIN monitored |-> [revision_status |-> response[k]]]
                all == AllApproved(revs)
                return == after_model_return(r_messages, revs)
            IN /\ r_rejected' = IF \A k \in DOMAIN response : response[k] = "approved"
                                THEN r_rejected ELSE r_rejected \cup {r_turn}
               /\ r_classified' = {tool_calls[monitored[k]].id : k \in DOMAIN monitored}
               /\ IF (\E k \in DOMAIN response : response[k] = "raises") \/ all = "raise"
                  THEN /\ r_pc' = "raised"
                       /\ r_error' = "classifier"
                       /\ UNCHANGED <<r_messages, revisions>>
                  ELSE IF return.is_none
                  THEN /\ r_pc' = IF tool_calls = <<>> THEN END ELSE "tools"
                       /\ UNCHANGED <<r_messages, revisions, r_error>>
                  ELSE /\ r_messages' = return.messages
                       /\ revisions' = return.revisions
                       /\ r_pc' = "before_model"
                       /\ UNCHANGED r_error
    /\ UNCHANGED <<r_turn, r_executed>>
    /\ UNCHANGED outsideRevisor

\* the tools node of create_agent runs every tool call of the trailing message;
\* dispatch_tasks raises ValueError for a subagent that is not in _subagents_mapping
r_tools ==
    /\ r_pc = "tools"
    /\ LET tool_calls == r_messages[Len(r_messages)].tool_calls
           unknown == {k \in DOMAIN tool_calls :
                          /\ tool_calls[k].name = "dispatch_tasks"
                          /\ tool_calls[k].subagent \notin subagents_mapping}
       IN /\ r_executed' = r_executed \cup {tool_calls[k].id : k \in DOMAIN tool_calls}
          /\ IF unknown # {}
             THEN /\ r_pc' = "raised"
                  /\ r_error' = "ValueError"
                  /\ UNCHANGED r_messages
             ELSE /\ r_messages' = r_messages \o
                       [k \in DOMAIN tool_calls |->
                           ToolMessage(<<"result", tool_calls[k].name>>, tool_calls[k].id)]
                  /\ r_pc' = "before_model"
                  /\ UNCHANGED r_error
    /\ UNCHANGED <<revisions, r_turn, r_rejected, r_classified>>
    /\ UNCHANGED outsideRevisor

RevisorNext ==
    \/ before_model
    \/ model
    \/ after_model
    \/ r_tools

\* ------------------------------------------------- Planner/Critic graph
PLANNER == "planner"
CRITIC == "critic"
TRANSFORM == "transform"
TOOL_CALL == "tool_call"

\* textual markers the nodes look for in message contents
QUESTION == "QUESTION:"
ANSWER == "ANSWER:"
NO_CRITIQUE == "000-NO_CRITIQUE-000"

MAX_CRITIQUES == 3

\* a message of the planner graph: the node that wrote it and the markers its text holds
PlannerMessage(node, content) == [node |-> node, content |-> content]

\* planner: plan is replaced by the response unless the response is a question
new_plan(state_plan, content) ==
    IF QUESTION \notin content THEN state_plan + 1 ELSE state_plan

\* a counter that also advances on Q&A steps: C9 does not hold with it
new_count_always(last_planner_content, count) == count + 1
\* critic: the counter after the step, given the last planner message
new_count(last_planner_content, count) ==
    IF QUESTION \in last_planner_content THEN count ELSE count + 1

\* the sentinel tested before the answer marker: C10 does not hold with it
should_continue_planning_sentinel_first(content, count) ==
    IF NO_CRITIQUE \in content THEN TRANSFORM
    ELSE IF ANSWER \in content THEN PLANNER
    ELSE IF count >= MAX_CRITIQUES THEN TRANSFORM
    ELSE PLANNER
\* should_continue_planning, on the critic's message and the counter
should_continue_planning(content, count) ==
    IF ANSWER \in content THEN PLANNER
    ELSE IF NO_CRITIQUE \in content THEN TRANSFORM
    ELSE IF count >= MAX_CRITIQUES THEN TRANSFORM
    ELSE PLANNER

PlannerInit ==
    /\ p_pc = PLANNER
    /\ last_message = PlannerMessage("<none>", {})
    /\ plan = 0
    /\ critique_count = 0
    /\ todos = 0
    /\ qa_cycles = 0
    /\ conforms = TRUE

\* the planner node, then the edge to CRITIC
planner ==
    /\ p_pc = PLANNER
    /\ \E content \in SUBSET {QUESTION} :
         /\ last_message' = PlannerMessage(PLANNER, content)
         /\ plan' = new_plan(plan, content)
    /\ p_pc' = CRITIC
    /\ UNCHANGED <<critique_count, todos, qa_cycles, conforms>>
    /\ UNCHANGED outsidePlanner

\* the critic node, then the conditional edge should_continue_planning
critic ==
    /\ p_pc = CRITIC
    /\ \E content \in SUBSET {ANSWER, NO_CRITIQUE} :
         LET question == QUESTION \in last_message.content
             count == new_count(last_message.content, critique_count)
         IN /\ (ANSWER \in content /\ ~question) => count < MaxCritiqueCount
            /\ last_message' = PlannerMessage(CRITIC, content)
            /\ critique_count' = count
            /\ p_pc' = should_continue_planning(content, count)
            /\ qa_cycles' = IF question /\ qa_cycles < MaxQA THEN qa_cycles + 1 ELSE qa_cycles
            /\ conforms' = (conforms /\ (question \/ ANSWER \notin content))
    /\ UNCHANGED <<plan, todos>>
    /\ UNCHANGED outsidePlanner

\* transform_plan_to_todos: the response calls write_todos or does not
transform_plan_to_todos ==
    /\ p_pc = TRANSFORM
    /\ \E content \in SUBSET {"write_todos"} :
         last_message' = PlannerMessage(TRANSFORM, content)
    /\ p_pc' = TOOL_CALL
    /\ UNCHANGED <<plan, critique_count, todos, qa_cycles, conforms>>
    /\ UNCHANGED outsidePlanner

\* tool_node runs the write_todos call of the last message, then the edge to END
tool_node ==
    /\ p_pc = TOOL_CALL
    /\ todos' = IF "write_todos" \in last_message.content THEN plan ELSE todos
    /\ p_pc' = END
    /\ UNCHANGED <<last_message, plan, critique_count, qa_cycles, conforms>>
    /\ UNCHANGED outsidePlanner

PlannerNext ==
    \/ planner
    \/ critic
    \/ transform_plan_to_todos
    \/ tool_node

\* --------------------------------------- CheckParsingFailureMiddleware
\* for attempt in range(3)
Attempts == 0..2

\* a response of the model: its text and the number of its tool calls
Response(content, n_tool_calls) == [content |-> content, n_tool_calls |-> n_tool_calls]

Responses == {Response(c, n) : c \in {"", "text"}, n \in 0..2}

\* the value of a function that falls off its end
NoResponse == Response("<None>", 0)

\* a test on the text alone: C11 does not hold with it
IsEmptyText(msg) == msg.content = ""
\* assistant_message.content == "" and len(assistant_message.tool_calls) == 0
IsEmpty(msg) == msg.content = "" /\ msg.n_tool_calls = 0

\* HumanMessage("Your last message was completely empty. ...")
CorrectiveMessage == "corrective"

RetryInit ==
    /\ w_pc = "request"
    /\ attempt = 0
    /\ request_messages = <<>>
    /\ ret = NoResponse
    /\ responses = <<>>
    /\ corrected_before = {}

\* the model node hands wrap_model_call the request for a reasoning step, whose state
\* holds the history so far
model_request ==
    /\ w_pc = "request"
    /\ request_messages' \in NonEmptySeqsUpTo({"human", "tool"}, MaxHistory)
    /\ w_pc' = "loop"
    /\ UNCHANGED <<attempt, ret, responses, corrected_before>>
    /\ UNCHANGED outsideRetry

\* one pass of the loop of wrap_model_call: the corrective message when attempt == 1,
\* the call of the handler, and the return of a response that is not empty
wrap_model_call ==
    /\ w_pc = "loop"
    /\ attempt \in Attempts
    /\ request_messages' = IF attempt = 1
                           THEN Append(request_messages, CorrectiveMessage)
                           ELSE request_messages
    /\ corrected_before' = IF attempt = 1
                           THEN corrected_before \cup {attempt + 1}
                           ELSE corrected_before
    /\ \E response \in Responses :
         /\ responses' = Append(responses, response)
         /\ IF IsEmpty(response)
            THEN /\ attempt' = attempt + 1
                 /\ UNCHANGED <<w_pc, ret>>
            ELSE /\ ret' = response
                 /\ w_pc' = "returned"
                 /\ UNCHANGED attempt
    /\ UNCHANGED outsideRetry

\* the loop is exhausted: wrap_model_call ends without a return statement
wrap_model_call_exhausted ==
    /\ w_pc = "loop"
    /\ attempt \notin Attempts
    /\ ret' = NoResponse
    /\ w_pc' = "returned"
    /\ UNCHANGED <<attempt, request_messages, responses, corrected_before>>
    /\ UNCHANGED outsideRetry

RetryNext ==
    \/ model_request
    \/ wrap_model_call
    \/ wrap_model_call_exhausted


\* ------------------------------------------------ dispatch_tasks (orchestrator)
\* the prompts of one call of dispatch_tasks
PromptLists == SeqsUpTo({"a", "b"}, MaxPrompts)

\* what one subagent_tool.ainvoke returns
Answers == {"r1", "r2"}

\* results.append in front of the list instead of behind it: C25 does not hold with it
append_result_in_front(results, prompt, answer) == <<<<prompt, answer>>>> \o results
\* results.append((prompt, ret))
append_result(results, prompt, answer) == Append(results, <<prompt, answer>>)

DispatchInit ==
    /\ d_pc = "idle"
    /\ d_subagent = Absent
    /\ d_prompts = <<>>
    /\ d_results = <<>>
    /\ d_answered = <<>>

\* the call of dispatch_tasks up to the loop: ValueError for a subagent that is not a
\* key of _subagents_mapping
dispatch_tasks ==
    /\ d_pc = "idle"
    /\ \E subagent \in subagents_mapping \cup {monitored_subagent}, prompts \in PromptLists :
         /\ d_subagent' = subagent
         /\ d_prompts' = prompts
         /\ d_pc' = IF subagent \in subagents_mapping THEN "loop" ELSE "raised"
    /\ d_results' = <<>>
    /\ d_answered' = <<>>
    /\ UNCHANGED outsideDispatch

\* one pass of the loop: await subagent_tool.ainvoke({"prompt": prompt}), which
\* returns an answer or raises, then results.append
dispatch_prompt ==
    /\ d_pc = "loop"
    /\ Len(d_answered) < Len(d_prompts)
    /\ \/ \E answer \in Answers :
            /\ d_answered' = Append(d_answered, answer)
            /\ d_results' = append_result(d_results, d_prompts[Len(d_answered) + 1], answer)
            /\ UNCHANGED d_pc
       \/ /\ d_pc' = "raised"
          /\ UNCHANGED <<d_answered, d_results>>
    /\ UNCHANGED <<d_subagent, d_prompts>>
    /\ UNCHANGED outsideDispatch

\* return results
dispatch_return ==
    /\ d_pc = "loop"
    /\ Len(d_answered) = Len(d_prompts)
    /\ d_pc' = "returned"
    /\ UNCHANGED <<d_subagent, d_prompts, d_results, d_answered>>
    /\ UNCHANGED outsideDispatch

DispatchNext ==
    \/ dispatch_tasks
    \/ dispatch_prompt
    \/ dispatch_return


\* ------------------------- the message list a reasoning node hands to its model
SystemMessage == "system"

\* the kinds of message a node finds in state["messages"]
StateMessages == SeqsUpTo({"human", "ai", "tool"}, MaxHistory)

\* ReactAgent._call_llm: the prompt is put in front when the list is empty or its
\* first message is not a SystemMessage
call_llm_messages(msgs) ==
    IF msgs = <<>> \/ msgs[1] # SystemMessage THEN <<SystemMessage>> \o msgs ELSE msgs

\* AssistantNode.acall: an empty list becomes [SystemMessage]; then the prompt is put in
\* front when messages[0] is not a SystemMessage
acall_messages(msgs) ==
    LET m == IF msgs = <<>> THEN <<SystemMessage>> ELSE msgs
    IN IF m[1] # SystemMessage THEN <<SystemMessage>> \o m ELSE m

\* AssistantNode.__call__: an empty list becomes [SystemMessage]; then
\* isinstance(state["messages"], SystemMessage) tests the list, which is never a
\* SystemMessage, so the prompt is put in front in every case
call_messages(msgs) ==
    LET m == IF msgs = <<>> THEN <<SystemMessage>> ELSE msgs
    IN <<SystemMessage>> \o m

EntryPoints == {"_call_llm", "acall", "__call__"}

AssistantInit ==
    /\ a_pc = "idle"
    /\ a_entry = Absent
    /\ a_state = <<>>
    /\ a_handed = <<>>
    /\ a_retries = 0

\* a reasoning node is entered with the history of its state and builds the message
\* list for the model
assistant_enter ==
    /\ a_pc = "idle"
    /\ \E entry \in EntryPoints, msgs \in StateMessages :
         /\ a_entry' = entry
         /\ a_state' = msgs
         /\ a_handed' = CASE entry = "_call_llm" -> call_llm_messages(msgs)
                          [] entry = "acall" -> acall_messages(msgs)
                          [] OTHER -> call_messages(msgs)
    /\ a_pc' = "model"
    /\ a_retries' = 0
    /\ UNCHANGED outsideAssistant

\* the model is invoked on the list. _call_llm returns {"messages": [response]}; the
\* loop of AssistantNode (while True) tests the result and leaves only with a result
\* that has tool calls or content
assistant_model ==
    /\ a_pc = "model"
    /\ \E result \in {"empty", "content", "tool_calls"} :
         IF result = "empty" /\ a_entry # "_call_llm"
         THEN /\ a_pc' = "empty"
              /\ UNCHANGED a_state
         ELSE /\ a_state' = Append(a_state, "ai")
              /\ a_pc' = "returned"
    /\ UNCHANGED <<a_entry, a_handed, a_retries>>
    /\ UNCHANGED outsideAssistant

\* the branch of the loop for an empty result: ("user", "Respond with a real output.")
\* is added to the local list and the loop starts over. The loop has no counter;
\* a_retries and the list stop recording at MaxRetries, the loop itself goes on
assistant_retry ==
    /\ a_pc = "empty"
    /\ a_handed' = IF a_retries < MaxRetries THEN Append(a_handed, "user") ELSE a_handed
    /\ a_retries' = IF a_retries < MaxRetries THEN a_retries + 1 ELSE a_retries
    /\ a_pc' = "model"
    /\ UNCHANGED <<a_entry, a_state>>
    /\ UNCHANGED outsideAssistant

AssistantNext ==
    \/ assistant_enter
    \/ assistant_model
    \/ assistant_retry


\* ------------------------------------------ email tools and their mock stores
\* thread identifiers of the sessions that run in the process
Sessions == {"thread-1", "thread-2"}

\* ids of the messages MOCK_INBOX is created with
InboxIds == {"email-001", "email-002"}

\* subjects a session writes, and the draft ids the clock of draft_email can yield
Subjects == {"s1", "s2"}
DraftIds == {"draft-1", "draft-2"}

\* what read_emails returns to a session: the tools read the module-level lists, no
\* argument or lookup depends on the thread
read_emails_result(session, folder) == IF folder = "sent" THEN MOCK_SENT ELSE MOCK_INBOX

MailInit ==
    /\ MOCK_INBOX = [id \in InboxIds |-> [is_read |-> id = "email-002"]]
    /\ MOCK_SENT = <<>>
    /\ MOCK_DRAFTS = [id \in {} |-> "s1"]
    /\ m_actor = Absent
    /\ m_seen = [t \in Sessions |-> <<>>]

\* read_emails called in a session
read_emails ==
    /\ \E session \in Sessions, folder \in {"inbox", "sent"} :
         /\ m_actor' = session
         /\ m_seen' = [m_seen EXCEPT ![session] = <<folder, read_emails_result(session, folder)>>]
    /\ UNCHANGED <<MOCK_INBOX, MOCK_SENT, MOCK_DRAFTS>>
    /\ UNCHANGED outsideMail

\* draft_email called in a session: MOCK_DRAFTS[draft_id] = draft
draft_email ==
    /\ \E session \in Sessions, subject \in Subjects, draft_id \in DraftIds :
         /\ m_actor' = session
         /\ MOCK_DRAFTS' = [id \in DOMAIN MOCK_DRAFTS \cup {draft_id} |->
                              IF id = draft_id THEN subject ELSE MOCK_DRAFTS[id]]
    /\ UNCHANGED <<MOCK_INBOX, MOCK_SENT, m_seen>>
    /\ UNCHANGED outsideMail

\* send_email called in a session, from scratch or from a draft: an unknown draft id
\* returns an error string, anything else ends in MOCK_SENT.append(email)
send_email ==
    /\ Len(MOCK_SENT) < MaxSent
    /\ \E session \in Sessions, subject \in Subjects, draft_id \in DraftIds \cup {Absent} :
         /\ m_actor' = session
         /\ MOCK_SENT' = IF draft_id = Absent THEN Append(MOCK_SENT, subject)
                         ELSE IF draft_id \in DOMAIN MOCK_DRAFTS
                         THEN Append(MOCK_SENT, MOCK_DRAFTS[draft_id])
                         ELSE MOCK_SENT
    /\ UNCHANGED <<MOCK_INBOX, MOCK_DRAFTS, m_seen>>
    /\ UNCHANGED outsideMail

\* mark_email_as_read called in a session
mark_email_as_read ==
    /\ \E session \in Sessions, email_id \in InboxIds \cup {"email-999"} :
         /\ m_actor' = session
         /\ MOCK_INBOX' = IF email_id \in DOMAIN MOCK_INBOX
                          THEN [MOCK_INBOX EXCEPT ![email_id].is_read = TRUE]
                          ELSE MOCK_INBOX
    /\ UNCHANGED <<MOCK_SENT, MOCK_DRAFTS, m_seen>>
    /\ UNCHANGED outsideMail

MailNext ==
    \/ read_emails
    \/ draft_email
    \/ send_email
    \/ mark_email_as_read


\* ------------------------------- AssistantWithSubagents and its dialog stack
\* names of the subagents the graph is built with
SubagentNames == {"query", "billing"}

\* an update of dialog_state that a node does not return
NoUpdate == "<none>"

\* a reducer that leaves the stack alone on "pop": C29 does not hold with it
update_dialog_stack_ignoring_pop(left, right) ==
    IF right = NoUpdate \/ right = "pop" THEN left ELSE Append(left, right)
\* update_dialog_stack for the updates the nodes return: None, "pop" or a name
update_dialog_stack(left, right) ==
    IF right = NoUpdate THEN left
    ELSE IF right = "pop" THEN SubSeq(left, 1, Len(left) - 1)
    ELSE Append(left, right)

\* route_to_workflow of create_router_fn("primary_assistant", subagent names)
RECURSIVE route_to_workflow_from(_, _)
route_to_workflow_from(stack, depth) ==
    IF depth > Len(stack) THEN "raise"
    ELSE IF stack[Len(stack) + 1 - depth] = "primary_assistant" THEN "primary_assistant"
    ELSE IF stack[Len(stack) + 1 - depth] \in SubagentNames THEN stack[Len(stack) + 1 - depth]
    ELSE route_to_workflow_from(stack, depth + 1)

\* the walk started at the outermost entry: C38 does not hold with it
route_to_workflow_outermost(stack) ==
    IF stack = <<>> THEN "primary_assistant"
    ELSE route_to_workflow_from([i \in 1..Len(stack) |-> stack[Len(stack) + 1 - i]], 1)
\* route_to_workflow: "primary_assistant" for None or an empty stack, else the walk
\* from depth 1
route_to_workflow(stack) ==
    IF stack = <<>> THEN "primary_assistant" ELSE route_to_workflow_from(stack, 1)

\* to_subagent_fn.__name__ of each subagent
to_subagent_fn == [n \in SubagentNames |-> IF n = "query" THEN "ToQuerySubagent" ELSE "ToBillingSubagent"]

CompleteOrEscalate == "CompleteOrEscalate"

\* names of the tool calls the primary assistant's model can choose from
PrimaryMenu == {"total_cost"} \cup {to_subagent_fn[n] : n \in SubagentNames}

\* names of the tool calls a subagent's model can choose from
SubagentMenu == {"total_cost", CompleteOrEscalate}

\* route_primary_assistant on the tool calls of the trailing message: the subagent's
\* name stands for the node enter_<name>
route_primary_assistant(tool_calls) ==
    IF tool_calls = <<>> THEN END
    ELSE IF \E n \in SubagentNames : tool_calls[1] = to_subagent_fn[n]
    THEN CHOOSE n \in SubagentNames : tool_calls[1] = to_subagent_fn[n]
    ELSE "primary_assistant_tools"

\* subagent_route on the tool calls of the trailing message
subagent_route(tool_calls) ==
    IF tool_calls = <<>> THEN "leave_skill"
    ELSE IF \E k \in DOMAIN tool_calls : tool_calls[k] = CompleteOrEscalate THEN "leave_skill"
    ELSE "subagent_tools"

DialogInit ==
    /\ g_pc = "idle"
    /\ dialog_state = <<>>
    /\ g_target = Absent
    /\ g_before = <<>>
    /\ g_turns = 0
    /\ g_rounds = 0
    /\ g_calls = <<>>
    /\ g_answered = {}

\* graph.ainvoke with a new input: the conditional edge at START
graph_invoke ==
    /\ g_pc \in {"idle", END, "interrupted"}
    /\ g_turns < MaxTurns
    /\ g_turns' = g_turns + 1
    /\ g_pc' = route_to_workflow(dialog_state)
    /\ g_rounds' = 0
    /\ UNCHANGED <<dialog_state, g_target, g_before, g_calls, g_answered>>
    /\ UNCHANGED outsideDialog

\* the node primary_assistant appends one assistant message; route_primary_assistant
\* then picks END, the node's own tools, or enter_<subagent>
primary_assistant ==
    /\ g_pc = "primary_assistant"
    /\ \E tool_calls \in SeqsUpTo(PrimaryMenu, IF g_rounds < MaxRounds THEN MaxCalls ELSE 0) :
         LET route == route_primary_assistant(tool_calls)
         IN /\ g_calls' = tool_calls
            /\ g_answered' = {}
            /\ g_pc' = IF route \in SubagentNames THEN "enter" ELSE route
            /\ g_target' = IF route \in SubagentNames THEN route ELSE g_target
            /\ g_rounds' = IF route = END THEN g_rounds ELSE g_rounds + 1
    /\ UNCHANGED <<dialog_state, g_before, g_turns>>
    /\ UNCHANGED outsideDialog

\* the node primary_assistant_tools: a result, or an error text, for every call of the
\* trailing message
primary_assistant_tools ==
    /\ g_pc = "primary_assistant_tools"
    /\ g_answered' = DOMAIN g_calls
    /\ g_pc' = "primary_assistant"
    /\ UNCHANGED <<dialog_state, g_target, g_before, g_turns, g_rounds, g_calls>>
    /\ UNCHANGED outsideDialog

\* entry_node of create_entry_node(full_name, subagent.name): returns one ToolMessage,
\* with the id of tool_calls[0], and "dialog_state": new_dialog_state
entry_node ==
    /\ g_pc = "enter"
    /\ dialog_state' = update_dialog_stack(dialog_state, g_target)
    /\ g_before' = dialog_state
    /\ g_answered' = g_answered \cup {1}
    /\ g_pc' = g_target
    /\ g_rounds' = 0
    /\ UNCHANGED <<g_target, g_turns, g_calls>>
    /\ UNCHANGED outsideDialog

\* a subagent node appends one assistant message; subagent_route then picks leave_skill
\* or the subagent's tools
subagent ==
    /\ g_pc \in SubagentNames
    /\ \E tool_calls \in SeqsUpTo(SubagentMenu, IF g_rounds < MaxRounds THEN MaxCalls ELSE 0) :
         /\ g_calls' = tool_calls
         /\ g_answered' = {}
         /\ g_pc' = subagent_route(tool_calls)
         /\ g_rounds' = IF tool_calls = <<>> THEN g_rounds ELSE g_rounds + 1
    /\ UNCHANGED <<dialog_state, g_target, g_before, g_turns>>
    /\ UNCHANGED outsideDialog

\* the node <subagent>_tools: a result, or an error text, for every call and back to
\* the subagent, or the run is suspended by a tool that raises GraphInterrupt
subagent_tools ==
    /\ g_pc = "subagent_tools"
    /\ \/ /\ g_pc' = dialog_state[Len(dialog_state)]
          /\ g_answered' = DOMAIN g_calls
       \/ /\ g_pc' = "interrupted"
          /\ UNCHANGED g_answered
    /\ UNCHANGED <<dialog_state, g_target, g_before, g_turns, g_rounds, g_calls>>
    /\ UNCHANGED outsideDialog

\* pop_dialog_state, the node leave_skill: when the trailing message has tool calls,
\* one ToolMessage with the id of tool_calls[0]; returns "dialog_state": "pop"
pop_dialog_state ==
    /\ g_pc = "leave_skill"
    /\ dialog_state' = update_dialog_stack(dialog_state, "pop")
    /\ g_answered' = IF g_calls # <<>> THEN g_answered \cup {1} ELSE g_answered
    /\ g_pc' = "primary_assistant"
    /\ UNCHANGED <<g_target, g_before, g_turns, g_rounds, g_calls>>
    /\ UNCHANGED outsideDialog

DialogNext ==
    \/ graph_invoke
    \/ primary_assistant
    \/ primary_assistant_tools
    \/ entry_node
    \/ subagent
    \/ subagent_tools
    \/ pop_dialog_state


\* ------------------------------------- invoice workflow
\* raw_email_content as run_invoice_workflow or a test passes it: missing, "", a mail
RawEmails == {Absent, "", "mail"}

\* project_name of an extracted activity: None or a name
ProjectNames == {"<None>", "p1", "p2"}

Activity(project_name, project_id) == [project_name |-> project_name, project_id |-> project_id]

\* the lists _extract_activities_with_llm can return
ActivityLists == SeqsUpTo({Activity(n, "<None>") : n \in ProjectNames}, MaxActivities)

\* the error appended a second time: C30 does not hold with it
append_error_twice(errs, text) == errs \o <<text, text>>
\* state["errors"].append(text)
append_error(errs, text) == Append(errs, text)

WorkflowInit ==
    /\ wf_pc = "idle"
    /\ current_step = "email_parsing"
    /\ raw_email_content = Absent
    /\ consultant_activities = <<>>
    /\ errors = <<>>
    /\ wf_failed = "none"
    /\ has_discrepancies = FALSE
    /\ validation_passed = FALSE

\* run_invoice_workflow builds the initial state
run_invoice_workflow ==
    /\ wf_pc = "idle"
    /\ raw_email_content' \in RawEmails
    /\ wf_pc' = "parse_email"
    /\ UNCHANGED <<current_step, consultant_activities, errors, wf_failed, has_discrepancies, validation_passed>>
    /\ UNCHANGED outsideWorkflow

\* parse_email: no content, an exception inside the try block, or the extraction
parse_email ==
    /\ wf_pc = "parse_email"
    /\ IF raw_email_content \in {Absent, ""}
       THEN /\ errors' = append_error(errors, "No email content provided")
            /\ current_step' = "completed"
            /\ wf_failed' = "no content"
            /\ UNCHANGED consultant_activities
       ELSE \/ /\ errors' = append_error(errors, "Email parsing error")
               /\ current_step' = "completed"
               /\ wf_failed' = "exception"
               /\ UNCHANGED consultant_activities
            \/ /\ consultant_activities' \in ActivityLists
               /\ current_step' = "project_resolution"
               /\ wf_failed' = "none"
               /\ UNCHANGED errors
    /\ wf_pc' = "resolve_projects"
    /\ UNCHANGED <<raw_email_content, has_discrepancies, validation_passed>>
    /\ UNCHANGED outsideWorkflow

\* the loop of resolve_projects over the activities: an activity whose name is in the
\* mapping gets its project_id, up to the activity at which mapping[...] raises (stop)
Resolved(activities, mapping, stop) ==
    [k \in DOMAIN activities |->
        IF k < stop /\ activities[k].project_name \in mapping
        THEN Activity(activities[k].project_name, "id")
        ELSE activities[k]]

\* resolve_projects, which the edge parse_email -> resolve_projects runs next: an
\* exception before the loop (get_llm, the agent, json.loads), an exception at one
\* activity of the loop, or the loop to its end
resolve_projects ==
    /\ wf_pc = "resolve_projects"
    /\ \E mapping \in SUBSET {"p1", "p2"} :
         \/ /\ errors' = append_error(errors, "Project resolution error")
            /\ current_step' = "completed"
            /\ wf_failed' = "exception"
            /\ \E stop \in {k \in DOMAIN consultant_activities :
                              consultant_activities[k].project_name \in mapping} \cup {1} :
                  consultant_activities' = Resolved(consultant_activities, mapping, stop)
         \/ /\ consultant_activities' =
                  Resolved(consultant_activities, mapping, Len(consultant_activities) + 1)
            /\ current_step' = "reconciliation"
            /\ wf_failed' = "none"
            /\ UNCHANGED errors
    /\ wf_pc' = "reconcile"
    /\ UNCHANGED <<raw_email_content, has_discrepancies, validation_passed>>
    /\ UNCHANGED outsideWorkflow

\* should_continue_to_validation, the conditional edge after reconcile
should_continue_to_validation(discrepancies) ==
    IF discrepancies THEN "notify" ELSE "validate"

\* reconcile_activities, which the edge resolve_projects -> reconcile runs next
reconcile_activities ==
    /\ wf_pc = "reconcile"
    /\ current_step' = "invoice_generation"
    /\ has_discrepancies' = FALSE
    /\ wf_pc' = should_continue_to_validation(has_discrepancies')
    /\ wf_failed' = "none"
    /\ UNCHANGED <<raw_email_content, consultant_activities, errors, validation_passed>>
    /\ UNCHANGED outsideWorkflow

\* validate_data, then the edge validate -> generate_invoices
validate_data ==
    /\ wf_pc = "validate"
    /\ current_step' = "invoice_generation"
    /\ validation_passed' = TRUE
    /\ wf_pc' = "generate_invoices"
    /\ UNCHANGED <<raw_email_content, consultant_activities, errors, wf_failed, has_discrepancies>>
    /\ UNCHANGED outsideWorkflow

\* generate_invoices, then the edge generate_invoices -> notify
generate_invoices ==
    /\ wf_pc = "generate_invoices"
    /\ current_step' = "notification"
    /\ validation_passed' = TRUE
    /\ wf_pc' = "notify"
    /\ UNCHANGED <<raw_email_content, consultant_activities, errors, wf_failed, has_discrepancies>>
    /\ UNCHANGED outsideWorkflow

\* send_notifications, then the edge notify -> END
send_notifications ==
    /\ wf_pc = "notify"
    /\ current_step' = "completed"
    /\ wf_pc' = END
    /\ UNCHANGED <<raw_email_content, consultant_activities, errors, wf_failed, has_discrepancies, validation_passed>>
    /\ UNCHANGED outsideWorkflow

WorkflowNext ==
    \/ run_invoice_workflow
    \/ parse_email
    \/ resolve_projects
    \/ reconcile_activities
    \/ validate_data
    \/ generate_invoices
    \/ send_notifications


\* ------------------------- the router at START, on any stack a thread can hold
\* entries a stack can hold: the assistant's name, the registered subagents, and names
\* of agents that are not nodes of this graph
StackNames == {"primary_assistant", "resource", "project"} \cup SubagentNames

\* the stacks of a thread's state: what a checkpoint holds or an input passes as
\* dialog_state (update_dialog_stack takes a list as the new stack)
Stacks == SeqsUpTo(StackNames, MaxDepth)

RouterInit ==
    /\ rt_pc = "idle"
    /\ rt_stack = <<>>
    /\ rt_result = Absent

\* the graph is entered: the conditional edge at START runs route_to_workflow on the
\* state's dialog_state
router_entry ==
    /\ \E stack \in Stacks :
         /\ rt_stack' = stack
         /\ rt_result' = route_to_workflow(stack)
    /\ rt_pc' = "routed"
    /\ UNCHANGED outsideRouter

RouterNext ==
    \/ router_entry

\* ------------------------------------------------------------------ claims

\* the fan-out superstep of the latest reasoning turn has completed
FanOutDone == pc = "llm" /\ sends # <<>>

\* ids of all invocations held by the assistant messages of a history
InvocationIds(msgs) ==
    UNION {{msgs[i].tool_calls[k].id : k \in DOMAIN msgs[i].tool_calls} : i \in 1..Len(msgs)}

\* C1: when a turn fans out N units, whatever the order in which they complete, the
\* parent's history ends with N result messages in slot order 1..N, the k-th carrying
\* the correlation id and the answer of the k-th unit.
C1_SlotOrder ==
    FanOutDone =>
        LET n == Len(sends)
            base == Len(messages) - n
        IN /\ base >= 1
           /\ messages[base].type = "ai"
           /\ \A k \in 1..n :
                /\ messages[base + k].type = "tool"
                /\ messages[base + k].tool_call_id = sends[k].messages[1].name
                /\ messages[base + k].content = FinalAnswer(sends[k])

\* C1 witness: three or more units were fanned out, one finished before a unit of a
\* lower slot, and all results are in the history.
C1_Witness == FanOutDone /\ Len(sends) >= 3 /\ early

\* the calls of the latest reasoning output, when it was routed to subagents
LatestCalls == messages[LastWithToolCalls(messages)].tool_calls

\* positions of the expanded calls that were derived from the call with this id
DerivedFrom(id) ==
    {j \in DOMAIN expanded : Len(expanded[j].id) = Len(id) + 1 /\ SubSeq(expanded[j].id, 1, Len(id)) = id}

C3_ResultsMatchInvocations ==
    FanOutDone =>
        \A i \in 1..Len(messages) :
            messages[i].type = "tool" => messages[i].tool_call_id \in InvocationIds(messages)

\* an invocation of the history that no result message answers
Unanswered(msgs) ==
    {id \in InvocationIds(msgs) : ~ \E i \in 1..Len(msgs) : msgs[i].type = "tool" /\ msgs[i].tool_call_id = id}

\* C4: the run is at END only when the latest reasoning output holds no invocation, and
\* no invocation emitted during the run is unanswered at END.
C4_TerminalOnlyWhenAnswered ==
    pc = END => (messages[Len(messages)].tool_calls = <<>> /\ Unanswered(messages) = {})

\* C7: a step of capability execution in which a suspend signal was raised never finishes
\* normally: the run does not go on to the reasoning step with the signal dropped.
C7_InterruptPropagates == pc = "llm" => signal = {}

\* C5: when the Revisor rejects, the trailing assistant message is replaced by a synthetic
\* human message, the revisions are stored and control goes back to the loop entry that
\* leads to the model; no tool call of a turn in which a dispatch was not approved is
\* ever invoked.
C5_RejectionReplacesAndSkips ==
    /\ \A id \in r_executed : id[1] \notin r_rejected
    /\ (revisions # None) =>
          /\ r_pc = "before_model"
          /\ r_turn \in r_rejected
          /\ r_messages[Len(r_messages)].type = "human"
          /\ r_messages[Len(r_messages)].content[1] = "tried to call tool(s)"
          /\ \A i \in 1..Len(r_messages) :
                \A k \in DOMAIN r_messages[i].tool_calls : r_messages[i].tool_calls[k].id[1] # r_turn

\* C5 witness: a message holding two calls was rejected, and an earlier approved turn
\* had its calls executed.
C5_Witness ==
    /\ revisions # None
    /\ Len(r_messages[Len(r_messages)].content) = 3
    /\ r_executed # {}

\* C6: a failure of the classification function never ends the run with an exception.
C6_ClassifierFailureIsRejection == r_error # "classifier"

\* C8: with a critic that on every critique cycle emits the approval sentinel or a
\* critique, the critique counter stays within cap + 1 and the loop reaches TRANSFORM.
C8_ReachesTransform ==
    /\ [](conforms => critique_count <= MAX_CRITIQUES + 1)
    /\ <>(~conforms \/ p_pc \in {TRANSFORM, TOOL_CALL, END})

\* C9: a CRITIC step that evaluates a plan adds exactly one to the critique counter, a
\* CRITIC step that answers a question leaves it unchanged, and no other step changes it.
C9_CounterOnlyOnCritiques ==
    [][/\ (p_pc = CRITIC /\ QUESTION \notin last_message.content)
            => critique_count' = critique_count + 1
       /\ (p_pc = CRITIC /\ QUESTION \in last_message.content)
            => critique_count' = critique_count
       /\ p_pc # CRITIC => critique_count' = critique_count]_vars

\* C9 witness: the critic has just answered a question after having critiqued a plan.
C9_Witness ==
    /\ last_message.node = CRITIC
    /\ qa_cycles >= 1
    /\ critique_count = 1
    /\ plan = 1

UnknownDelegations(msgs) ==
    UNION {{msgs[i].tool_calls[k] : k \in {j \in DOMAIN msgs[i].tool_calls :
                /\ msgs[i].tool_calls[j].name = delegation_tool_name
                /\ msgs[i].tool_calls[j].subagent_name \notin DOMAIN subagent_map}} :
           i \in 1..Len(msgs)}

\* C15: a delegation that names an unregistered subagent starts no subagent, and once its
\* turn has been routed the run is not over: the reasoning step runs again with an error
\* result for that delegation in the history.
C15_UnknownDestinationReported ==
    \A c \in UnknownDelegations(messages) :
        /\ \A k \in DOMAIN sends : sends[k].messages[1].name # c.id
        /\ pc # END
        /\ pc = "llm" => \E i \in 1..Len(messages) :
                            /\ messages[i].type = "tool"
                            /\ messages[i].tool_call_id = c.id
                            /\ messages[i].content = <<"Error">>

\* C16: the state a fan-out unit hands to its subagent is one human message holding the
\* instruction of one delegation of the history under that delegation's id; it is no
\* message of the parent's history and no message of a sibling unit.
C16_IsolatedMessageList ==
    \A k \in DOMAIN sends :
        /\ Len(sends[k].messages) = 1
        /\ sends[k].messages[1].type = "human"
        /\ \E i \in 1..Len(messages) : \E c \in DOMAIN messages[i].tool_calls :
              \E j \in DOMAIN ExpandOne(messages[i].tool_calls[c]) :
                  LET delegation == ExpandOne(messages[i].tool_calls[c])[j]
                  IN /\ delegation.id = sends[k].messages[1].name
                     /\ sends[k].messages[1].content = <<RequestContent(delegation)>>
        /\ \A j \in DOMAIN sends[k].messages :
              /\ \A i \in 1..Len(messages) : messages[i] # sends[k].messages[j]
              /\ \A k2 \in DOMAIN sends : k2 # k => sends[k2].messages[1] # sends[k].messages[j]

\* C16 witness: a later turn fans out two units with the same instruction while the
\* parent's history already holds results of an earlier turn.
C16_Witness ==
    /\ pc = "subagents"
    /\ Len(sends) >= 2
    /\ sends[1].messages[1].content = sends[2].messages[1].content
    /\ \E i \in 1..Len(messages) : messages[i].type = "tool"

\* C17: when the fan-out superstep ends, the parent's history grows by exactly one message
\* per unit, each a result message whose content is the final answer of a unit; the earlier
\* history is unchanged and no intermediate message of a subagent is added.
C17_OnlyFinalAnswerReturned ==
    [][(pc = "subagents" /\ pc' = "llm") =>
          /\ Len(messages') = Len(messages) + Len(sends)
          /\ SubSeq(messages', 1, Len(messages)) = messages
          /\ \A i \in (Len(messages) + 1)..Len(messages') :
                /\ messages'[i].type = "tool"
                /\ \E k \in DOMAIN sends :
                      /\ messages'[i].content = FinalAnswer(sends[k])
                      /\ messages'[i].tool_call_id = sends[k].messages[1].name]_vars

\* C17 witness: a fan-out of two units ended and a subagent run had intermediate messages.
C17_Witness ==
    /\ FanOutDone
    /\ Len(sends) >= 2
    /\ inner

\* C20: a resume value is applied only to the interrupt it was given for, and a resume
\* with pending interrupts is never refused.
C20_DecisionsByInterruptId ==
    /\ \A d \in decisions : d.applied = d.to
    /\ pc # "raised"

\* C21: after a resume no direct tool call that had completed before the suspension
\* has been executed a second time.
C21_NoSecondExecution == \A e \in executed : e.times = 1

\* the calls of a message that are dispatch_tasks calls addressed to the "query" agent
QueryDispatches(msg) ==
    {msg.tool_calls[k].id : k \in {j \in DOMAIN msg.tool_calls :
        /\ msg.tool_calls[j].name = "dispatch_tasks"
        /\ msg.tool_calls[j].subagent = "query"}}

\* C22: after_model hands to the classifier exactly the dispatch_tasks calls addressed
\* to the "query" agent, and a turn without such a call goes on to the tools (or ends)
\* with the messages and the revisions untouched and no classifier call.
C22_ClassifiesOnlyMonitored ==
    [][r_pc = "after_model" =>
          /\ r_classified' = QueryDispatches(r_messages[Len(r_messages)])
          /\ QueryDispatches(r_messages[Len(r_messages)]) = {} =>
                /\ r_messages' = r_messages
                /\ revisions' = revisions
                /\ r_error' = r_error
                /\ r_pc' \in {"tools", END}]_vars

\* C22 witness: a turn with a dispatch to another agent and a report call, none of them
\* classified, has reached the tools node.
C22_Witness ==
    /\ r_pc = "tools"
    /\ r_classified = {}
    /\ \E k \in DOMAIN r_messages[Len(r_messages)].tool_calls :
          /\ r_messages[Len(r_messages)].tool_calls[k].name = "dispatch_tasks"
          /\ r_messages[Len(r_messages)].tool_calls[k].subagent = "verification"

\* C23: when the classifier approves every dispatch it is given, after_model leaves the
\* whole history, and with it the trailing message and the agent name and prompts of
\* each of its calls, as the model produced it, and the tools node runs next.
C23_ApprovedPassesUnchanged ==
    [][(r_pc = "after_model" /\ r_rejected' = r_rejected) =>
          /\ r_messages' = r_messages
          /\ revisions' = revisions
          /\ r_pc' \in {"tools", END}]_vars

\* C23 witness: a message with an approved dispatch to "query" of two prompts stands
\* before the tools node.
C23_Witness ==
    /\ r_pc = "tools"
    /\ r_classified # {}
    /\ \E k \in DOMAIN r_messages[Len(r_messages)].tool_calls :
          /\ r_messages[Len(r_messages)].tool_calls[k].subagent = "query"
          /\ r_messages[Len(r_messages)].tool_calls[k].prompts = <<"a", "b">>

\* C24: a rejection is followed by before_model and then by the model, never by an
\* exception, whatever the number of rejections before it.
C24_RejectionRecoverable ==
    [][/\ (revisions = None /\ revisions' # None) => (r_pc' = "before_model" /\ r_error' = "none")
       /\ revisions # None =>
             (r_pc = "before_model" /\ r_pc' = "model" /\ revisions' = None /\ r_error' = "none")]_vars

\* C24 witness: a dispatch is rejected in a turn that follows an earlier rejection.
C24_Witness ==
    /\ revisions # None
    /\ \E t \in r_rejected : t < r_turn
    /\ \E i \in 1..Len(r_messages) : r_messages[i].content = <<"Tool call rejected">>

\* C25: what dispatch_tasks returns has one (prompt, answer) pair per prompt, in the
\* order of the prompts, each answer being the one given to that prompt.
C25_ResultsInPromptOrder ==
    d_pc = "returned" =>
       /\ d_subagent \in {"verification", "validation"}
       /\ Len(d_results) = Len(d_prompts)
       /\ \A i \in 1..Len(d_prompts) : d_results[i] = <<d_prompts[i], d_answered[i]>>

\* C25 witness: a call with three prompts, not all alike and answered differently, has
\* returned.
C25_Witness ==
    /\ d_pc = "returned"
    /\ Len(d_prompts) = 3
    /\ d_prompts[1] # d_prompts[3]
    /\ d_answered[1] # d_answered[2]

\* C26: the message list the model is invoked on begins with the system instruction
\* and holds it exactly once.
C26_SystemInstructionOnce ==
    a_pc \in {"model", "returned"} =>
       /\ a_handed[1] = SystemMessage
       /\ Cardinality({i \in DOMAIN a_handed : a_handed[i] = SystemMessage}) = 1

\* s is an initial part of t
IsPrefix(s, t) == Len(s) <= Len(t) /\ \A i \in 1..Len(s) : t[i] = s[i]

Observes(session) ==
    [inbox |-> read_emails_result(session, "inbox"),
     sent |-> read_emails_result(session, "sent"),
     drafts |-> MOCK_DRAFTS]

\* C28: a tool call made in one session leaves what every other session observes as
\* it was.
C28_SessionsShareNothing ==
    [][\A t \in Sessions : t # m_actor' => Observes(t)' = Observes(t)]_vars

C30_NodeFailureIsRecorded ==
    [][/\ (wf_pc = "parse_email" /\ raw_email_content \in {Absent, ""}) =>
             /\ errors' = errors \o <<"No email content provided">>
             /\ current_step' = "completed"
             /\ wf_pc' = "resolve_projects"
       /\ (wf_pc \in {"parse_email", "resolve_projects"} /\ wf_failed' = "exception") =>
             /\ Len(errors') = Len(errors) + 1
             /\ \A i \in DOMAIN errors : errors'[i] = errors[i]
             /\ current_step' = "completed"
             /\ wf_pc' \in {"resolve_projects", "reconcile"}]_vars

\* C30 witness: parse_email found no content and the resolution that ran after it
\* threw: both errors are recorded.
C30_Witness ==
    /\ wf_pc = "reconcile"
    /\ errors = <<"No email content provided", "Project resolution error">>
    /\ current_step = "completed"

\* a reasoning output that holds both a direct capability call and a delegation call
Mixed(tool_calls) ==
    /\ \E k \in DOMAIN tool_calls : IsDelegation(tool_calls[k])
    /\ \E k \in DOMAIN tool_calls : ~IsDelegation(tool_calls[k])

\* C31: when the latest reasoning output holds both direct capability calls and delegation
\* calls, then by the time the next reasoning step is about to run every call of that
\* output has been executed and has a result message behind the output: a message with
\* the call's own id, or, for a batch delegation, with the ids derived from it.
C31_MixedOutputAllAnswered ==
    (pc = "llm" /\ LastWithToolCalls(messages) > 0 /\ Mixed(LatestCalls)) =>
        \A k \in DOMAIN LatestCalls :
            \E i \in 1..Len(messages) :
                /\ i > LastWithToolCalls(messages)
                /\ messages[i].type = "tool"
                /\ \/ messages[i].tool_call_id = LatestCalls[k].id
                   \/ /\ LatestCalls[k].name = delegation_tool_name
                      /\ Len(messages[i].tool_call_id) = Len(LatestCalls[k].id) + 1
                      /\ SubSeq(messages[i].tool_call_id, 1, Len(LatestCalls[k].id)) = LatestCalls[k].id

\* C32: a dispatch_tasks call that the Revisor reviewed and approved can execute: the
\* tools node never ends in the ValueError that dispatch_tasks raises for an agent name
\* missing from _subagents_mapping when the calls it ran include a reviewed one.
C32_ApprovedDispatchExecutes ==
    (r_classified \cap r_executed # {}) => r_error # "ValueError"

\* C33: every execution of the Planner/Critic loop reaches TRANSFORM, also when the planner
\* keeps emitting clarification questions: no execution stays in Q&A cycles for ever.
C33_EveryExecutionReachesTransform == <>(p_pc = TRANSFORM)

\* C34: in every reachable state of the Planner/Critic loop the critique counter is at
\* most the cap of 3, and the PLANNER node is never the next node while the counter is
\* already at the cap.
C34_CounterWithinCap ==
    /\ critique_count <= MAX_CRITIQUES
    /\ p_pc = PLANNER => critique_count < MAX_CRITIQUES

\* C35: when one of several direct calls of a turn failed with an ordinary error and the
\* reasoning step is next, every call of the turn has exactly one result message behind
\* the assistant message, and the result of a call that succeeded is its own return
\* value, not an error text.
C35_SucceededKeepResults ==
    (pc = "llm" /\ failed # {} /\ signal = {}) =>
        LET last == LastWithToolCalls(messages)
            Results(id) == {i \in (last + 1)..Len(messages) :
                               messages[i].type = "tool" /\ messages[i].tool_call_id = id}
        IN \A k \in DOMAIN messages[last].tool_calls :
              LET c == messages[last].tool_calls[k]
              IN /\ Cardinality(Results(c.id)) = 1
                 /\ c.id \notin failed =>
                       \A i \in Results(c.id) : messages[i].content = <<"ok", c.name>>

\* C36: in the dialog-stack assistant node the retry after an empty response does not go
\* on for ever: a reasoning step that has started ends, with a response or with a failure.
C36_RetryEnds == (a_pc = "model") ~> (a_pc \notin {"model", "empty"})

\* C37: in the dialog-stack graph every step that hands control to a reasoning node
\* from a node that follows an assistant message (a tools node, an enter node or
\* leave_skill) leaves every call of that message with a result message, also when the
\* first call is a transfer to a subagent or one of the calls is CompleteOrEscalate.
C37_EveryCallAnswered ==
    [][(/\ g_pc \in {"primary_assistant_tools", "subagent_tools", "enter", "leave_skill"}
        /\ g_pc' \in SubagentNames \cup {"primary_assistant"})
           => g_answered' = DOMAIN g_calls']_vars

\* positions of a stack whose entry is the assistant's name or a registered subagent
Matching(stack) == {i \in DOMAIN stack : stack[i] \in SubagentNames \cup {"primary_assistant"}}

\* C38: on entry of the dialog-stack graph control goes to primary_assistant when the
\* stack is empty; otherwise to the innermost entry that names the assistant or a
\* registered subagent (primary_assistant for the assistant, the subagent's node for a
\* subagent); and the entry fails with an error when no entry of the stack matches.
C38_RouteToInnermostMatch ==
    rt_pc = "routed" =>
        IF rt_stack = <<>> THEN rt_result = "primary_assistant"
        ELSE IF Matching(rt_stack) = {} THEN rt_result = "raise"
        ELSE LET i == CHOOSE i \in Matching(rt_stack) : \A j \in Matching(rt_stack) : j <= i
             IN /\ rt_stack[i] = "primary_assistant" => rt_result = "primary_assistant"
                /\ rt_stack[i] \in SubagentNames => rt_result = rt_stack[i]

\* C38 witness: the innermost entry is not a node of the graph, the one below it is a
\* registered subagent and the outermost is the assistant; control went to the subagent.
C38_Witness ==
    /\ rt_pc = "routed"
    /\ Len(rt_stack) = 3
    /\ rt_stack[1] = "primary_assistant"
    /\ rt_stack[2] = "billing"
    /\ rt_stack[3] = "resource"
    /\ rt_result = "billing"

\* C39: once a node of the invoice workflow has recorded an error and set current_step
\* to "completed", no later node runs and current_step does not change; a run that has
\* recorded an error never runs the nodes generate_invoices and notify.
C39_FailedRunStops ==
    [][/\ (errors # <<>> /\ current_step = "completed") =>
             (wf_pc' = wf_pc /\ current_step' = current_step)
       /\ errors # <<>> => wf_pc \notin {"generate_invoices", "notify"}]_vars

\* C11: on one reasoning step the model is called at most 3 times; every response but the
\* latest was entirely empty, and a response with text or a tool call is returned at once.
C11_AtMostThreeAttempts ==
    /\ Len(responses) <= 3
    /\ \A k \in 1..(Len(responses) - 1) :
         responses[k].content = "" /\ responses[k].n_tool_calls = 0
    /\ \A k \in 1..Len(responses) :
         (responses[k].content # "" \/ responses[k].n_tool_calls > 0) =>
             (k = Len(responses) /\ w_pc = "returned" /\ ret = responses[k])

\* C11 witness: the third attempt returned a response that has a tool call and no text.
C11_Witness ==
    /\ Len(responses) = 3
    /\ w_pc = "returned"
    /\ ret = Response("", 1)

\* C12: when every attempt of the retry gave an empty response the step ends in a raised
\* failure: wrap_model_call never returns normally without a response.
C12_ExhaustionIsHardFailure ==
    (w_pc = "returned" /\ Len(responses) = 3 /\ \A k \in 1..3 : IsEmpty(responses[k]))
        => ret # NoResponse

\* C13: the corrective message precedes the final attempt and no other: once the final
\* attempt has run it was preceded by the message, and no earlier attempt ever is.
C13_CorrectiveBeforeFinalRetry ==
    /\ corrected_before \subseteq {3}
    /\ Len(responses) = 3 => 3 \in corrected_before

Init == AgentInit /\ RevisorInit /\ PlannerInit /\ RetryInit /\ DispatchInit /\ AssistantInit /\ MailInit /\ DialogInit /\ WorkflowInit /\ RouterInit

\* the ReactAgent
Next == AgentNext

Spec == Init /\ [][Next]_vars

\* the orchestrator agent with the Revisor
SpecRevisor == Init /\ [][RevisorNext]_vars

\* the Planner/Critic graph
SpecPlanner == Init /\ [][PlannerNext]_vars

\* one reasoning step under CheckParsingFailureMiddleware
SpecRetry == Init /\ [][RetryNext]_vars

\* one call of dispatch_tasks
SpecDispatch == Init /\ [][DispatchNext]_vars

\* one reasoning node building its message list
SpecAssistant == Init /\ [][AssistantNext]_vars

\* two sessions calling the email tools
SpecMail == Init /\ [][MailNext]_vars

\* the graph of AssistantWithSubagents
SpecDialog == Init /\ [][DialogNext]_vars

\* the invoice workflow
SpecWorkflow == Init /\ [][WorkflowNext]_vars

\* the conditional edge at START of the dialog-stack graph
SpecRouter == Init /\ [][RouterNext]_vars

\* the Planner/Critic graph when every node that can run eventually runs
SpecPlannerFair == SpecPlanner /\ WF_vars(PlannerNext)

\* one reasoning step when the node's model call, whenever it is due, is made
SpecAssistantFair == SpecAssistant /\ WF_vars(AssistantNext)
====
